---- MODULE Spec2Model ----
(***************************************************************************)
(* Verification model of the scheduled extraction pipeline of              *)
(* realtime-stock-pipeline-aws: the retrying HTTP client and its rate      *)
(* limiter (src/api_client.py), the extractors and their job state machine *)
(* (src/data_pipeline/extractors.py, src/data_pipeline/models.py), the     *)
(* scheduler, job tracker and monitor (src/data_pipeline/scheduler.py,     *)
(* src/data_pipeline/monitoring.py), the response parsers                  *)
(* (src/updated_yahoo_client.py, src/walmart_client.py) and the cleaner    *)
(* and validator (src/data_pipeline/transformers.py).                      *)
(*                                                                         *)
(* Time is measured in whole seconds.  Exceptions are modelled by the name *)
(* of their class.                                                         *)
(***************************************************************************)
EXTENDS Integers, Sequences, FiniteSets, TLC

VARIABLES
    requests,    \* RateLimiter.requests: the timestamp sequence
    clock,       \* time.time()
    limCall,     \* what the last wait_if_needed call of the single caller observed
    upstream,    \* the upstream's behaviour for one call: responses and Retry-After header
    syncCall,    \* result of BaseAPIClient._make_request against upstream
    asyncCall,   \* result of BaseAPIClient._make_async_request against upstream
    th,          \* per thread: its position inside wait_if_needed and its locals
    lostStamp,   \* a recorded timestamp was dropped by an assignment of a stale list
    job,         \* the PipelineJob of the extract() call in progress (or last returned)
    ext,         \* the locals of that extract() call and what happened in it
    running,           \* PipelineScheduler.running
    scheduler_thread,  \* PipelineScheduler.scheduler_thread: 0 (None) or the last thread spawned
    loops,             \* per spawned thread: its position inside _run_scheduler and its locals
    wall,              \* time.time() / datetime.now() of the scheduler's host
    last_run,          \* PipelineSchedule.last_run of each schedule
    jobs,              \* PipelineScheduler.jobs: the job tracker, job_id -> job
    alerts,            \* PipelineMonitor.alerts: alert_id -> alert
    metrics,           \* PipelineMonitor.metrics
    ctl,               \* the thread that calls start() and stop()
    caller,            \* the thread that calls run_data_source / run_full_pipeline / cleanup
    hist,              \* what has happened so far (calls made, records stored and evicted)
    parseCall,            \* a payload and what a response parser did with it
    cleanCall,           \* a record list and the outputs of cleaning it once and twice
    qualityCall,           \* a record batch and the completeness check made of it
    validityCall,          \* a stock_quotes batch and the validity check made of it
    cronCall,              \* a schedule, a time and what _should_run_schedule returned for them
    tickLoop,              \* one tick loop on its own: its clock and the minutes it evaluated
    mon,                   \* a monitor that only collects metrics: its metrics list
    disk,                  \* the data directories: file name -> the run that wrote it last
    sent                   \* the times at which the single caller's wait_if_needed calls returned

vars == <<requests, clock, limCall, upstream, syncCall, asyncCall, th, lostStamp, job, ext,
          running, scheduler_thread, loops, wall, last_run, jobs, alerts, metrics, ctl, caller, hist,
          parseCall, cleanCall, qualityCall,
          validityCall, cronCall, tickLoop, mon, disk, sent>>

limiterVars == <<requests, clock, limCall>>
clientVars  == <<upstream, syncCall, asyncCall>>
threadVars  == <<th, lostStamp>>
extractVars == <<job, ext>>
schedVars   == <<running, scheduler_thread, loops, wall, last_run, jobs, alerts, metrics, ctl, caller, hist>>
pureVars    == <<parseCall, cleanCall, qualityCall>>
otherVars   == <<validityCall, cronCall, tickLoop, mon, disk, sent>>

----------------------------------------------------------------------------
(* Bounds of the model *)

\* the limiter's configured requests_per_minute (60 by default in the code)
requests_per_minute == 2
\* number of upstream responses prepared for one call
MaxResp == 3
\* the environment lets time pass in steps of TickStep seconds up to MaxClock
TickStep == 20
MaxClock == 140
\* calls of wait_if_needed made by each thread
MaxCalls == 2
\* extract() calls made, work items (symbols, pages, lists) per call, elements per payload
MaxJobs == 2
MaxSymbols == 3
MaxRecords == 2
\* PipelineConfig.batch_size (100 by default in the code)
batch_size == 2
\* extractor runs that reach their save step, and the seconds that pass meanwhile
MaxSaves == 2
MaxSeconds == 2
\* how far the clock of the tick loop taken on its own runs, in seconds
MaxTickWall == 1800
\* collect_metrics calls made on a monitor that already holds up to metrics_cap records
MaxCollects == 3
\* ad hoc runs made by the orchestrator, and how far the scheduler's clock runs
MaxRuns == 2
MaxWall == 65
\* calls of start() and stop() made
MaxOps == 4
\* length of the record list given to the cleaner, size of the batch given to the validator
MaxCleanLen == 1
MaxBatch == 20

(* Program constants *)

max_retries == 3
retry_delay == 1
Window == 60
DefaultRetryAfter == 60
delay_between_requests == 1

NONE == "None"
\* upstream answers: an HTTP status, or 0 when no response arrives (network error)
NetErr == 0
Status == {200, 401, 429, 500, NetErr}
\* the Retry-After header of a 429 response: <<>> when absent, <<seconds>> when present
RetryAfterHeaders == {<<>>, <<5>>}

----------------------------------------------------------------------------
(* RateLimiter, src/api_client.py *)

\* self.requests = [req_time for req_time in self.requests if req_time > minute_ago]
Prune(reqs, now) == SelectSeq(reqs, LAMBDA r : r > now - Window)

\* variant of PopOldest: the oldest timestamp is kept after the wait
PopOldestKeep(reqs) == reqs

\* self.requests.pop(0)
PopOldest(reqs) == Tail(reqs)

\* One uninterrupted execution of wait_if_needed (also the body that
\* async_wait_if_needed runs under its lock), entered at time now.
WaitIfNeededResult(reqs, now) ==
    LET pruned     == Prune(reqs, now)
        full       == Len(pruned) >= requests_per_minute
        sleep_time == IF full THEN Window - (now - pruned[1]) ELSE 0
        slept      == full /\ sleep_time > 0
        kept       == IF slept THEN PopOldest(pruned) ELSE pruned
    IN  [requests   |-> Append(kept, now),
         clock      |-> IF slept THEN now + sleep_time ELSE now,
         inWindow   |-> Len(pruned),
         oldest     |-> IF full THEN pruned[1] ELSE -1,
         sleep_time |-> sleep_time,
         slept      |-> slept]

----------------------------------------------------------------------------
(* BaseAPIClient._make_request and its retry wrapper, src/api_client.py *)

\* int(response.headers.get('Retry-After', 60))
RetryAfterSeconds(hdr) == IF hdr = <<>> THEN DefaultRetryAfter ELSE hdr[1]

\* what the try-body of _make_request raises for an upstream answer
SyncRaises(st) ==
    IF st = NetErr THEN "RequestException"
    ELSE IF st = 429 THEN "RateLimitError"
    ELSE IF st = 401 THEN "AuthenticationError"
    ELSE IF st >= 400 THEN "RequestException"
    ELSE NONE

\* except requests.exceptions.RequestException as e: raise APIError(...) from e
SyncExcept(exc) == IF exc = "RequestException" THEN "APIError" ELSE exc

\* variant of RetryIf: every APIError subclass is retried
RetryIfAny(exc) == exc \in {"RequestException", "RateLimitError", "AuthenticationError"}

\* retry=retry_if_exception_type((requests.exceptions.RequestException, RateLimitError))
RetryIf(exc) == exc \in {"RequestException", "RateLimitError"}

\* variant of StopAfterAttempt: off by one
StopAfterAttemptEarly(n) == n >= max_retries - 1

\* stop=stop_after_attempt(api_config.max_retries)
StopAfterAttempt(n) == n >= max_retries

\* wait=wait_exponential(multiplier=api_config.retry_delay)
WaitExponential(n) == retry_delay * (2 ^ (n - 1))

Ev(e, t, v) == [ev |-> e, t |-> t, v |-> v]

\* The decorated _make_request: attempt n of the call, entered at time clk.
RECURSIVE SyncRun(_, _, _, _, _, _)
SyncRun(resps, hdr, n, reqs, clk, log) ==
    LET lim  == WaitIfNeededResult(reqs, clk)
        t1   == lim.clock
        st   == resps[n]
        ra   == RetryAfterSeconds(hdr)
        t2   == IF st = 429 THEN t1 + ra ELSE t1
        log1 == log \o <<Ev("limiter", clk, lim.sleep_time), Ev("request", t1, st)>>
        log2 == IF st = 429 THEN Append(log1, Ev("retry_after", t1, ra)) ELSE log1
        exc  == SyncExcept(SyncRaises(st))
        res(o, t, l) == [outcome |-> o, attempts |-> n, requests |-> lim.requests,
                         clock |-> t, log |-> l]
    IN  IF exc = NONE THEN res("ok", t2, log2)
        ELSE IF ~RetryIf(exc) THEN res(exc, t2, log2)
        ELSE IF StopAfterAttempt(n) THEN res("RetryError", t2, log2)
        ELSE SyncRun(resps, hdr, n + 1, lim.requests, t2 + WaitExponential(n),
                     Append(log2, Ev("backoff", t2, WaitExponential(n))))

MakeRequest(resps, hdr, reqs, clk) == SyncRun(resps, hdr, 1, reqs, clk, <<>>)

(* BaseAPIClient._make_async_request, src/api_client.py *)

AsyncRaises(st) ==
    IF st = NetErr THEN "ClientError"
    ELSE IF st = 429 THEN "RateLimitError"
    ELSE IF st = 401 THEN "AuthenticationError"
    ELSE IF st >= 400 THEN "ClientError"
    ELSE NONE

\* except aiohttp.ClientError as e: raise APIError(...) from e
AsyncExcept(exc) == IF exc = "ClientError" THEN "APIError" ELSE exc

MakeAsyncRequest(resps, hdr, reqs, clk) ==
    LET lim  == WaitIfNeededResult(reqs, clk)
        t1   == lim.clock
        st   == resps[1]
        ra   == RetryAfterSeconds(hdr)
        t2   == IF st = 429 THEN t1 + ra ELSE t1
        log1 == <<Ev("limiter", clk, lim.sleep_time), Ev("request", t1, st)>>
        log2 == IF st = 429 THEN Append(log1, Ev("retry_after", t1, ra)) ELSE log1
        exc  == AsyncExcept(AsyncRaises(st))
    IN  [outcome |-> IF exc = NONE THEN "ok" ELSE exc, attempts |-> 1,
         requests |-> lim.requests, clock |-> t2, log |-> log2]

----------------------------------------------------------------------------
(* State machine of the client: one upstream behaviour, answered once    *)
(* through the synchronous path and once through the asynchronous path.  *)

Pending == [outcome |-> "pending", attempts |-> 0, log |-> <<>>]
NoCall  == [called |-> FALSE, before |-> <<>>, now |-> 0, inWindow |-> 0, oldest |-> -1,
            sleep_time |-> 0, slept |-> FALSE, ret |-> 0]

\* the threads that share one extractor's client: the tick loop of
\* PipelineScheduler._run_scheduler and a caller of run_immediate
\* no extract() call was made yet
NoJob == [obj |-> 0, data_source |-> NONE, status |-> NONE, started_at |-> -1,
          completed_at |-> -1, duration_seconds |-> -1, total_items |-> -1,
          processed_items |-> 0, failed_items |-> 0, error_message |-> NONE]
NoExtract == [pc |-> "idle", n |-> 0, i |-> 1, all_items |-> 0, raw_data |-> 0,
              calls |-> <<>>, http_failed |-> 0, one_each |-> TRUE,
              exc |-> NONE, saved |-> <<>>]

Threads == {"scheduler", "run_immediate"}
Idle == [pc |-> "idle", now |-> 0, tmp |-> <<>>, wake |-> 0, calls |-> 0]
NoThreads == [t \in Threads |-> Idle]

(* The scheduler, its job tracker and the monitor as constructed *)

Range(f) == {f[x] : x \in DOMAIN f}

\* PipelineScheduler._setup_default_schedules, in insertion order
Schedules == <<
    [schedule_id |-> "market_tickers_daily", data_source |-> "market_tickers",
     cron_expression |-> "0 6 * * *", enabled |-> TRUE],
    [schedule_id |-> "stock_quotes_frequent", data_source |-> "stock_quotes",
     cron_expression |-> "*/5 9-16 * * 1-5", enabled |-> TRUE],
    [schedule_id |-> "stock_history_daily", data_source |-> "stock_history",
     cron_expression |-> "0 19 * * *", enabled |-> TRUE],
    [schedule_id |-> "market_screeners_frequent", data_source |-> "market_screeners",
     cron_expression |-> "*/15 9-16 * * 1-5", enabled |-> TRUE],
    [schedule_id |-> "stock_news_frequent", data_source |-> "stock_news",
     cron_expression |-> "*/30 * * * *", enabled |-> TRUE] >>

\* the threads start() spawns, in this order
LoopIds == <<"first", "second">>
NoThread == "None"
NoJobId == [data_source |-> NONE, t |-> -1]
NoTrackedJob == [job_id |-> NoJobId, data_source |-> NONE, status |-> NONE,
                 created_at |-> -1, duration_seconds |-> -1]
Unborn == [pc |-> "unborn", current_time |-> -1, i |-> 0, job |-> NoTrackedJob, wake |-> -1]
CtlIdle == [pc |-> "idle", deadline |-> -1]
CallerIdle == [pc |-> "idle", job |-> NoTrackedJob]
NoHistory == [ops |-> 0, last_op |-> NONE, seen |-> {}, runs |-> 0, recorded |-> 0, raised |-> NONE]

\* PipelineScheduler.__init__ and PipelineMonitor.__init__
SchedulerConstructed ==
    /\ running = FALSE
    /\ scheduler_thread = NoThread
    /\ loops = [l \in Range(LoopIds) |-> Unborn]
    /\ wall = 0
    /\ last_run = [i \in DOMAIN Schedules |-> -1]
    /\ jobs = <<>>
    /\ alerts = <<>>
    /\ metrics = <<>>
    /\ ctl = CtlIdle
    /\ caller = CallerIdle
    /\ hist = NoHistory

NoParse == [pc |-> "input", parser |-> NONE, payload |-> <<>>, raised |-> NONE, records |-> <<>>]
NoClean == [pc |-> "input", kind |-> NONE, data |-> <<>>, once |-> <<>>, twice |-> <<>>]
NoQuality == [pc |-> "input", data_type |-> NONE, n |-> 0, lacking |-> 0, lack |-> {},
              status |-> NONE, missing |-> 0]

NothingTransformed ==
    /\ parseCall = NoParse
    /\ cleanCall = NoClean
    /\ qualityCall = NoQuality

NoValidity == [pc |-> "input", data_type |-> NONE, n |-> 0, bad |-> NONE, bad_price |-> 0,
               bad_volume |-> 0, bad_both |-> 0, status |-> NONE, invalid |-> 0]
NoCron == [pc |-> "input", i |-> 1, current_time |-> [weekday |-> 0, hour |-> 0, minute |-> 0],
           result |-> FALSE]
NoTicks == [pc |-> "unstarted", now |-> 0, evaluated |-> {}, executed |-> {}]
NoMetrics == [metrics |-> <<>>, inserted |-> 0]
NoFiles == [pc |-> "idle", now |-> 0, run |-> 0, data_source |-> NONE, files |-> <<>>]

\* the validator, the monitor and the data directories before their first call
RestAsConstructed ==
    /\ validityCall = NoValidity
    /\ cronCall = NoCron
    /\ tickLoop = NoTicks
    /\ mon = NoMetrics
    /\ disk = NoFiles
    /\ sent = <<>>

InitClient ==
    /\ requests = <<>>
    /\ clock = 0
    /\ limCall = NoCall
    /\ upstream \in [resps : [1..MaxResp -> Status], retry_after : RetryAfterHeaders]
    /\ syncCall = Pending
    /\ asyncCall = Pending
    /\ th = NoThreads
    /\ lostStamp = FALSE
    /\ job = NoJob
    /\ ext = NoExtract
    /\ SchedulerConstructed
    /\ RestAsConstructed
    /\ NothingTransformed

CallMakeRequest ==
    /\ syncCall.outcome = "pending"
    /\ LET r == MakeRequest(upstream.resps, upstream.retry_after, requests, clock)
       IN  /\ syncCall' = [outcome |-> r.outcome, attempts |-> r.attempts, log |-> r.log]
           /\ requests' = r.requests
           /\ clock' = r.clock
    /\ UNCHANGED <<limCall, upstream, asyncCall, threadVars, extractVars, schedVars, pureVars, otherVars>>

CallMakeAsyncRequest ==
    /\ asyncCall.outcome = "pending"
    /\ LET r == MakeAsyncRequest(upstream.resps, upstream.retry_after, requests, clock)
       IN  /\ asyncCall' = [outcome |-> r.outcome, attempts |-> r.attempts, log |-> r.log]
           /\ requests' = r.requests
           /\ clock' = r.clock
    /\ UNCHANGED <<limCall, upstream, syncCall, threadVars, extractVars, schedVars, pureVars, otherVars>>

NextClient == CallMakeRequest \/ CallMakeAsyncRequest

SpecClient == InitClient /\ [][NextClient]_vars

----------------------------------------------------------------------------
(* State machine of the rate limiter used by a single caller *)

InitLimiter ==
    /\ requests = <<>>
    /\ clock = 0
    /\ limCall = NoCall
    /\ upstream = [resps |-> [i \in 1..MaxResp |-> 200], retry_after |-> <<>>]
    /\ syncCall = Pending
    /\ asyncCall = Pending
    /\ th = NoThreads
    /\ lostStamp = FALSE
    /\ job = NoJob
    /\ ext = NoExtract
    /\ SchedulerConstructed
    /\ RestAsConstructed
    /\ NothingTransformed

\* time passes between two calls
Tick ==
    /\ clock + TickStep <= MaxClock
    /\ clock' = clock + TickStep
    /\ UNCHANGED <<requests, limCall, clientVars, threadVars, extractVars, schedVars, pureVars, otherVars>>

WaitIfNeeded ==
    /\ clock <= MaxClock
    /\ LET r == WaitIfNeededResult(requests, clock)
       IN  /\ requests' = r.requests
           /\ clock' = r.clock
           /\ limCall' = [called |-> TRUE, before |-> requests, now |-> clock, inWindow |-> r.inWindow,
                          oldest |-> r.oldest, sleep_time |-> r.sleep_time,
                          slept |-> r.slept, ret |-> r.clock]
           /\ sent' = Append(sent, r.clock)
    /\ UNCHANGED <<validityCall, cronCall, tickLoop, mon, disk>>
    /\ UNCHANGED <<clientVars, threadVars, extractVars, schedVars, pureVars>>

NextLimiter == Tick \/ WaitIfNeeded

SpecLimiter == InitLimiter /\ [][NextLimiter]_vars

----------------------------------------------------------------------------
(* wait_if_needed called by several threads on the same RateLimiter.      *)
(* The method takes no lock (self.lock is used by async_wait_if_needed    *)
(* only), so its statements interleave.                                   *)

Count(seq, v) == Cardinality({i \in DOMAIN seq : seq[i] = v})

InitThreads ==
    /\ requests = <<>>
    /\ clock = 0
    /\ limCall = NoCall
    /\ upstream = [resps |-> [i \in 1..MaxResp |-> 200], retry_after |-> <<>>]
    /\ syncCall = Pending
    /\ asyncCall = Pending
    /\ th = NoThreads
    /\ lostStamp = FALSE
    /\ job = NoJob
    /\ ext = NoExtract
    /\ SchedulerConstructed
    /\ RestAsConstructed
    /\ NothingTransformed

\* now = time.time()
ReadNow(t) ==
    /\ th[t].pc = "idle"
    /\ th[t].calls < MaxCalls
    /\ th' = [th EXCEPT ![t].pc = "filter", ![t].now = clock]
    /\ UNCHANGED <<limiterVars, clientVars, lostStamp, extractVars, schedVars, pureVars, otherVars>>

\* the list comprehension [req_time for req_time in self.requests if ...]
PruneRead(t) ==
    /\ th[t].pc = "filter"
    /\ th' = [th EXCEPT ![t].pc = "assign", ![t].tmp = Prune(requests, th[t].now)]
    /\ UNCHANGED <<limiterVars, clientVars, lostStamp, extractVars, schedVars, pureVars, otherVars>>

\* self.requests = <the filtered list>
PruneAssign(t) ==
    /\ th[t].pc = "assign"
    /\ requests' = th[t].tmp
    /\ lostStamp' = (lostStamp \/ \E i \in DOMAIN requests :
                        Count(Prune(requests, th[t].now), requests[i]) > Count(th[t].tmp, requests[i]))
    /\ th' = [th EXCEPT ![t].pc = "check", ![t].tmp = <<>>]
    /\ UNCHANGED <<clock, limCall, clientVars, extractVars, schedVars, pureVars, otherVars>>

\* if len(self.requests) >= self.requests_per_minute: sleep_time = ...; if sleep_time > 0
CheckFull(t) ==
    /\ th[t].pc = "check"
    /\ LET full       == Len(requests) >= requests_per_minute
           sleep_time == IF full THEN Window - (th[t].now - requests[1]) ELSE 0
       IN  th' = [th EXCEPT ![t].pc = IF full /\ sleep_time > 0 THEN "sleep" ELSE "append",
                            ![t].wake = IF full /\ sleep_time > 0 THEN clock + sleep_time ELSE 0]
    /\ UNCHANGED <<limiterVars, clientVars, lostStamp, extractVars, schedVars, pureVars, otherVars>>

\* time.sleep(sleep_time) returns
WakeUp(t) ==
    /\ th[t].pc = "sleep"
    /\ clock >= th[t].wake
    /\ th' = [th EXCEPT ![t].pc = "pop", ![t].wake = 0]
    /\ UNCHANGED <<limiterVars, clientVars, lostStamp, extractVars, schedVars, pureVars, otherVars>>

\* self.requests.pop(0): IndexError on an empty list
PopStep(t) ==
    /\ th[t].pc = "pop"
    /\ IF requests = <<>>
       THEN /\ th' = [th EXCEPT ![t].pc = "IndexError"]
            /\ UNCHANGED requests
       ELSE /\ th' = [th EXCEPT ![t].pc = "append"]
            /\ requests' = PopOldest(requests)
    /\ UNCHANGED <<clock, limCall, clientVars, lostStamp, extractVars, schedVars, pureVars, otherVars>>

\* self.requests.append(now)
AppendStep(t) ==
    /\ th[t].pc = "append"
    /\ requests' = Append(requests, th[t].now)
    /\ th' = [th EXCEPT ![t].pc = "idle", ![t].now = 0, ![t].calls = @ + 1]
    /\ UNCHANGED <<clock, limCall, clientVars, lostStamp, extractVars, schedVars, pureVars, otherVars>>

NextThreads ==
    \/ Tick
    \/ \E t \in Threads : ReadNow(t)
    \/ \E t \in Threads : PruneRead(t)
    \/ \E t \in Threads : PruneAssign(t)
    \/ \E t \in Threads : CheckFull(t)
    \/ \E t \in Threads : WakeUp(t)
    \/ \E t \in Threads : PopStep(t)
    \/ \E t \in Threads : AppendStep(t)

SpecThreads == InitThreads /\ [][NextThreads]_vars

----------------------------------------------------------------------------
(* Extractors, src/data_pipeline/extractors.py *)

DataSources == {"market_tickers", "stock_quotes", "stock_history",
                "market_screeners", "stock_news"}
Terminal == {"completed", "failed", "cancelled"}

\* An element of a payload's body: one that yields a typed record, one that
\* fails model validation (no symbol, no title, no timestamp), and one that
\* is not a mapping at all.
Elements == {"good", "invalid", "nondict"}
Bodies   == UNION {[1..k -> Elements] : k \in 0..MaxRecords}
NoBody   == [has_body |-> FALSE, body |-> <<>>]
Payloads == {[has_body |-> TRUE, body |-> b] : b \in Bodies} \cup {NoBody}

\* what the upstream does during one sub-call
SubCallUpstreams == {[i \in 1..MaxResp |-> st] : st \in Status}

\* BaseExtractor.create_job
CreateJobRecord(obj, src) ==
    [obj |-> obj, data_source |-> src, status |-> "pending", started_at |-> -1,
     completed_at |-> -1, duration_seconds |-> -1, total_items |-> -1,
     processed_items |-> 0, failed_items |-> 0, error_message |-> NONE]

\* UpdatedYahooFinanceAPIClient._make_api_call: APIResponse.success
ApiCallSuccess(r) == r.outcome = "ok" /\ r.log[Len(r.log)].v = 200

\* the extractors that hand the payload to a parser of UpdatedYahooFinanceDataParser
UsesParser(src) == src \in {"market_tickers", "stock_quotes"}

\* parse_tickers_response / parse_quotes_response: a ValidationError skips
\* the element, any other exception is re-raised
ParseResponse(payload) ==
    LET body == payload.body
    IN  IF \E k \in DOMAIN body : body[k] = "nondict"
        THEN [raised |-> "AttributeError", records |-> 0, counted |-> 0]
        ELSE LET good == Cardinality({k \in DOMAIN body : body[k] = "good"})
             IN  [raised |-> NONE, records |-> good, counted |-> good]

\* the record construction loops of the history, screener and news
\* extractors: no handler around the constructor
BuildRecords(payload) ==
    LET body == payload.body
        bad  == {k \in DOMAIN body : body[k] # "good"}
    IN  IF bad # {}
        THEN LET k == CHOOSE x \in bad : \A y \in bad : x <= y
             IN  [raised |-> IF body[k] = "invalid" THEN "ValidationError" ELSE "AttributeError",
                  records |-> 0, counted |-> 0]
        ELSE [raised |-> NONE, records |-> Len(body), counted |-> Len(body)]

\* number of sub-calls for n work items; the quotes extractor sends batches
NumSubCalls(src, n) ==
    IF src = "stock_quotes" THEN (n + batch_size - 1) \div batch_size ELSE n

\* len(batch_symbols) of sub-call i
BatchLen(src, n, i) ==
    IF src = "stock_quotes"
    THEN (IF i * batch_size <= n THEN batch_size ELSE n - (i - 1) * batch_size)
    ELSE 1

\* variant of FailedIncrement: a failed sub-call is not counted
FailedIncrementNone(src, blen) == 0

\* the else-branch of "if response.success": job.failed_items += ...
FailedIncrement(src, blen) == IF src = "stock_quotes" THEN blen ELSE 1

\* variant of Complete: the completion time is not stamped
CompleteUnstamped(j, now) == [j EXCEPT !.status = "completed"]

\* job.status = COMPLETED; completed_at; duration_seconds
Complete(j, now) ==
    [j EXCEPT !.status = "completed", !.completed_at = now,
              !.duration_seconds = now - j.started_at]

\* variant of ExceptHandler: the message is not recorded
ExceptHandlerNoMessage(j, exc, now) ==
    [j EXCEPT !.status = "failed", !.completed_at = now,
              !.duration_seconds = now - j.started_at]

\* except Exception as e: job.status = FAILED; error_message; completed_at; duration_seconds
ExceptHandler(j, exc, now) ==
    [j EXCEPT !.status = "failed", !.error_message = exc, !.completed_at = now,
              !.duration_seconds = now - j.started_at]

InitExtract ==
    /\ requests = <<>>
    /\ clock = 0
    /\ limCall = NoCall
    /\ upstream = [resps |-> [i \in 1..MaxResp |-> 200], retry_after |-> <<>>]
    /\ syncCall = Pending
    /\ asyncCall = Pending
    /\ th = NoThreads
    /\ lostStamp = FALSE
    /\ job = NoJob
    /\ ext = NoExtract
    /\ SchedulerConstructed
    /\ RestAsConstructed
    /\ NothingTransformed

\* extract() is entered with n work items: job = self.create_job(...)
CreateJob ==
    /\ ext.pc \in {"idle", "returned"}
    /\ job.obj < MaxJobs
    /\ \E src \in DataSources, n \in 0..MaxSymbols :
          /\ job' = CreateJobRecord(job.obj + 1, src)
          /\ ext' = [NoExtract EXCEPT !.pc = "created", !.n = n]
    /\ UNCHANGED <<limiterVars, clientVars, threadVars, schedVars, pureVars, otherVars>>

\* job.status = RUNNING; job.started_at = utcnow()
StartRunning ==
    /\ ext.pc = "created"
    /\ job' = [job EXCEPT !.status = "running", !.started_at = clock]
    /\ ext' = [ext EXCEPT !.pc = "loop"]
    /\ UNCHANGED <<limiterVars, clientVars, threadVars, schedVars, pureVars, otherVars>>

\* One iteration of the extraction loop: client call, parsing, counters, delay.
\* Only APIResponse.success of the client call is used here; the time the call
\* itself takes (limiter waits, Retry-After and backoff sleeps) and its effect
\* on the limiter are those of CallMakeRequest and are not added to this
\* specification's clock, which advances by the extractor's own delays.
SubCall ==
    /\ ext.pc = "loop"
    /\ ext.i <= NumSubCalls(job.data_source, ext.n)
    /\ \E resps \in SubCallUpstreams, payload \in Payloads :
          LET src     == job.data_source
              r       == MakeRequest(resps, <<>>, requests, clock)
              success == ApiCallSuccess(r)
              parsed  == IF UsesParser(src) THEN ParseResponse(payload)
                                            ELSE BuildRecords(payload)
              slept   == IF src = "market_tickers" /\ ~success
                         THEN 0 ELSE delay_between_requests
              one     == ext.one_each /\ (success => payload.body = <<"good">>)
          IN  /\ IF success /\ parsed.raised # NONE
                 THEN /\ job' = ExceptHandler(job, parsed.raised, clock)
                      /\ ext' = [ext EXCEPT !.pc = "returned", !.exc = parsed.raised,
                                            !.calls = Append(@, ext.i), !.one_each = one]
                      /\ clock' = clock
                 ELSE /\ job' = IF success
                                THEN [job EXCEPT !.processed_items = @ + parsed.counted]
                                ELSE [job EXCEPT !.failed_items =
                                         @ + FailedIncrement(src, BatchLen(src, ext.n, ext.i))]
                      /\ ext' = [ext EXCEPT !.i = @ + 1,
                                            !.all_items = @ + (IF success THEN parsed.records ELSE 0),
                                            !.raw_data = @ + (IF success THEN 1 ELSE 0),
                                            !.calls = Append(@, ext.i),
                                            !.http_failed = @ + (IF success THEN 0 ELSE 1),
                                            !.one_each = one]
                      /\ clock' = clock + slept
    /\ UNCHANGED <<requests, limCall, clientVars, threadVars, schedVars, pureVars, otherVars>>

\* after the loop: total_items, save_raw_data, save_processed_data, COMPLETED;
\* either save may fail with an OSError
Persist ==
    /\ ext.pc = "loop"
    /\ ext.i > NumSubCalls(job.data_source, ext.n)
    /\ \E fs \in {"ok", "raw_error", "processed_error"} :
          LET j1 == [job EXCEPT !.total_items = ext.all_items]
          IN  IF fs = "ok"
              THEN /\ job' = Complete(j1, clock)
                   /\ ext' = [ext EXCEPT !.pc = "returned", !.saved = <<"raw", "processed">>]
              ELSE /\ job' = ExceptHandler(j1, "OSError", clock)
                   /\ ext' = [ext EXCEPT !.pc = "returned", !.exc = "OSError",
                                         !.saved = IF fs = "raw_error" THEN <<>> ELSE <<"raw">>]
    /\ UNCHANGED <<limiterVars, clientVars, threadVars, schedVars, pureVars, otherVars>>

NextExtract == CreateJob \/ StartRunning \/ SubCall \/ Persist

SpecExtract == InitExtract /\ [][NextExtract]_vars

\* a thread inside extract() keeps running until extract() returns
SpecExtractFair ==
    SpecExtract /\ WF_vars(StartRunning) /\ WF_vars(SubCall) /\ WF_vars(Persist)

----------------------------------------------------------------------------
(* Properties of the extractors and their jobs *)

\* C1: for every job produced by an extractor's extract(), once total_items
\* has been set, processed_items + failed_items <= total_items, for every
\* mix of succeeding and failing sub-calls.  Checked under SpecExtract.
C1_CountersWithinTotal ==
    job.total_items # -1 => job.processed_items + job.failed_items <= job.total_items

\* C2: every job is created Pending, moves to Running and ends in exactly
\* one terminal status; the status never moves backwards or from one
\* terminal status to another, and completed_at is set if and only if the
\* status is terminal.  Checked under SpecExtractFair.
JobStep ==
    /\ job'.obj # job.obj => job'.status = "pending"
    /\ job'.obj = job.obj =>
          /\ job.status = "pending" => job'.status \in {"pending", "running"}
          /\ job.status = "running" => job'.status \in {"running"} \cup Terminal
          /\ job.status \in Terminal => job'.status = job.status
    /\ (job'.completed_at # -1) <=> (job'.status \in Terminal)

C2_JobLifecycle ==
    /\ [][JobStep]_vars
    /\ \A o \in 1..MaxJobs :
          (job.obj = o /\ job.status = "pending") ~> (job.obj = o /\ job.status \in Terminal)

C2_Witness ==
    /\ job.obj = MaxJobs
    /\ job.status = "completed"
    /\ job.started_at >= 0
    /\ job.completed_at >= job.started_at

\* C3: StockNewsExtractor.extract called with n symbols of which k sub-calls
\* fail at the HTTP level while each other sub-call returns one record (and
\* persisting does not fail) issues all n sub-calls in order and returns a
\* job with status Completed, processed_items = n - k, failed_items = k;
\* with k = 0, total_items = n.  Checked under SpecExtract.
C3_PartialFailureCompletes ==
    (/\ ext.pc = "returned"
     /\ job.data_source = "stock_news"
     /\ ext.one_each
     /\ ext.exc # "OSError")
        => /\ ext.calls = [k \in 1..ext.n |-> k]
           /\ job.status = "completed"
           /\ job.processed_items = ext.n - ext.http_failed
           /\ job.failed_items = ext.http_failed
           /\ ext.http_failed = 0 => job.total_items = ext.n

C3_Witness ==
    /\ ext.pc = "returned"
    /\ job.data_source = "stock_news"
    /\ ext.one_each
    /\ ext.n = 3
    /\ ext.http_failed = 1
    /\ job.status = "completed"
    /\ job.processed_items = 2
    /\ job.failed_items = 1

\* C4: an exception raised inside extract() after the job started Running
\* and outside the per-sub-call success/failure handling is caught:
\* extract() returns the job with status Failed, error_message set to the
\* exception text, and completed_at and duration_seconds set.  Checked
\* under SpecExtract.
C4_ExceptionFailsJob ==
    ext.exc # NONE =>
        /\ ext.pc = "returned"
        /\ job.status = "failed"
        /\ job.error_message = ext.exc
        /\ job.completed_at # -1
        /\ job.duration_seconds = job.completed_at - job.started_at
        /\ job.duration_seconds >= 0

C4_Witness ==
    /\ ext.exc = "OSError"
    /\ ext.saved = <<"raw">>
    /\ job.status = "failed"
    /\ job.data_source = "stock_quotes"

----------------------------------------------------------------------------
(* Properties of the HTTP client, checked under SpecClient *)

SyncDone  == syncCall.outcome # "pending"
AsyncDone == asyncCall.outcome # "pending"
RequestsOf(log) == SelectSeq(log, LAMBDA e : e.ev = "request")

\* C5: a request failing with a transient error other than 401/429 (HTTP
\* status >= 400 such as 500, or a network error) is retried by the
\* synchronous client until it succeeds or max_retries attempts were made;
\* the generic request error reaches the caller only after the attempts
\* are exhausted.
C5_TransientErrorRetried ==
    (SyncDone /\ syncCall.outcome = "APIError") => syncCall.attempts = max_retries

\* C6: on HTTP 429 the synchronous client sleeps Retry-After seconds (60 if
\* the header is absent), raises RateLimitError and the retry wrapper
\* re-issues the request; if every attempt gets 429 the call gives up after
\* exactly max_retries attempts, and every re-issue comes at least
\* Retry-After seconds after the 429 it follows.
C6_RateLimitedRetry ==
    SyncDone =>
        LET log      == syncCall.log
            rq       == RequestsOf(log)
            expected == IF upstream.retry_after = <<>> THEN 60 ELSE upstream.retry_after[1]
        IN  /\ \A i \in 1..Len(rq) : rq[i].v = 429 =>
                  /\ \E k \in 1..Len(log) : log[k] = Ev("retry_after", rq[i].t, expected)
                  /\ i < max_retries => /\ i < Len(rq)
                                        /\ rq[i + 1].t >= rq[i].t + expected
                  /\ i >= max_retries => /\ i = Len(rq)
                                         /\ syncCall.outcome = "RetryError"
            /\ (\A i \in 1..max_retries : upstream.resps[i] = 429) =>
                  /\ syncCall.attempts = max_retries
                  /\ Len(rq) = max_retries
                  /\ syncCall.outcome = "RetryError"

C6_Witness ==
    /\ syncCall.outcome = "RetryError"
    /\ syncCall.attempts = max_retries
    /\ upstream.retry_after = <<5>>

\* C7: on HTTP 401 the client raises AuthenticationError at once and the
\* retry wrapper makes no further attempt: the 401 is the last thing that
\* happens in the call, and a call whose first answer is 401 sends exactly
\* one request and sleeps neither for backoff nor for Retry-After.
C7_AuthErrorNotRetried ==
    SyncDone =>
        LET log == syncCall.log
        IN  /\ \A k \in 1..Len(log) : (log[k].ev = "request" /\ log[k].v = 401) =>
                  /\ k = Len(log)
                  /\ syncCall.outcome = "AuthenticationError"
            /\ upstream.resps[1] = 401 =>
                  /\ syncCall.attempts = 1
                  /\ Len(RequestsOf(log)) = 1
                  /\ \A k \in 1..Len(log) : log[k].ev \notin {"retry_after", "backoff"}

C7_Witness ==
    /\ syncCall.outcome = "AuthenticationError"
    /\ upstream.resps[1] = 401
    /\ syncCall.attempts = 1

\* C8: the asynchronous path has the same retry and rate-limit semantics
\* as the synchronous path: for every sequence of upstream responses both
\* consult the rate limiter before each attempt, make the same number of
\* attempts and end in the same outcome class.
OutcomeClass(o) == IF o = "RetryError" THEN "RateLimitError" ELSE o
LimiterBeforeEachRequest(log) ==
    \A k \in 1..Len(log) : log[k].ev = "request" => (k > 1 /\ log[k - 1].ev = "limiter")

C8_AsyncSameAsSync ==
    (SyncDone /\ AsyncDone) =>
        /\ LimiterBeforeEachRequest(syncCall.log)
        /\ LimiterBeforeEachRequest(asyncCall.log)
        /\ asyncCall.attempts = syncCall.attempts
        /\ OutcomeClass(asyncCall.outcome) = OutcomeClass(syncCall.outcome)

----------------------------------------------------------------------------
(* Properties of the rate limiter *)

\* C9: after every wait_if_needed call of a single caller the timestamp
\* sequence holds at most requests_per_minute entries; a call that arrives
\* when requests_per_minute timestamps are already inside the last 60
\* seconds waits (wait >= 0) until the oldest of them has aged out before
\* it returns.  Checked under SpecLimiter.
C9_LimiterBounded ==
    /\ Len(requests) <= requests_per_minute
    /\ limCall.called =>
          LET inside == {i \in DOMAIN limCall.before : limCall.now - limCall.before[i] < 60}
          IN  Cardinality(inside) >= requests_per_minute =>
                 /\ limCall.slept
                 /\ limCall.sleep_time >= 0
                 /\ limCall.ret = limCall.now + limCall.sleep_time
                 /\ \E i \in inside :
                       /\ \A j \in inside : limCall.before[i] <= limCall.before[j]
                       /\ limCall.ret >= limCall.before[i] + 60

C9_Witness ==
    /\ limCall.called
    /\ limCall.slept
    /\ limCall.sleep_time > 0
    /\ Len(requests) = requests_per_minute

\* C28: the limiter bounds the throughput of a single caller: in every
\* 60-second window at most requests_per_minute calls of wait_if_needed
\* return, calls that had to wait included.  Checked under SpecLimiter.
C28_ThroughputBounded ==
    \A i \in DOMAIN sent :
        Cardinality({j \in DOMAIN sent : sent[i] - Window < sent[j] /\ sent[j] <= sent[i]})
            <= requests_per_minute

\* C10: wait_if_needed is safe when several threads call it concurrently
\* on the same limiter: under every interleaving the timestamp sequence
\* never exceeds requests_per_minute entries, no recorded timestamp is
\* lost, and no call fails.  Checked under SpecThreads.
C10_ThreadSafe ==
    /\ Len(requests) <= requests_per_minute
    /\ ~lostStamp
    /\ \A t \in Threads : th[t].pc # "IndexError"

\* C26: an element of a sub-call's payload that cannot be turned into a
\* typed record is skipped: no exception raised for an element ends the
\* extraction, every sub-call is issued and the job of an extraction that
\* met no other error is Completed.  Checked under SpecExtract.
C26_MalformedElementSkipped ==
    ext.pc = "returned" =>
        /\ ext.exc \notin {"ValidationError", "AttributeError"}
        /\ Len(ext.calls) = NumSubCalls(job.data_source, ext.n)
        /\ ext.exc = NONE => job.status = "completed"

----------------------------------------------------------------------------
(* The scheduler (src/data_pipeline/scheduler.py), the orchestrator's ad   *)
(* hoc runs (src/data_pipeline/pipeline.py) and the monitor                *)
(* (src/data_pipeline/monitoring.py).  An extractor's extract() is a call  *)
(* that takes time: it begins by creating the job and returns it in a      *)
(* terminal status, or raises.  Time passes when a timer expires: a thread  *)
(* blocked in join(timeout) or in sleep() resumes at its deadline or later. *)

join_timeout == 5
tick_sleep == 60
processing_time == 300
job_failure_rate == 10
metrics_cap == 1000
SecondsPerDay == 86400

\* the host's clock when the scheduler is constructed: a Monday, 09:05:00
BaseTime == [weekday |-> 0, hour |-> 9, minute |-> 5]
\* the days arguments cleanup is called with
CleanupDays == {0, 7}
\* the sources the orchestrator is asked to run ad hoc
AdHocSources == {"stock_quotes", "stock_news"}
ExtractOutcomes == {"completed", "failed", "raise"}

\* datetime.now() when time.time() is w
DateTimeAt(w) ==
    LET tm == BaseTime.hour * 60 + BaseTime.minute + w \div 60
    IN  [weekday |-> (BaseTime.weekday + tm \div 1440) % 7, hour |-> (tm \div 60) % 24, minute |-> tm % 60]

ShouldRunSchedule(schedule, current_time) ==
    IF schedule.cron_expression = "0 6 * * *"
    THEN current_time.hour = 6 /\ current_time.minute = 0
    ELSE IF schedule.cron_expression = "*/5 9-16 * * 1-5"
    THEN 9 <= current_time.hour /\ current_time.hour < 16 /\ current_time.weekday < 5
         /\ current_time.minute % 5 = 0
    ELSE IF schedule.cron_expression = "0 19 * * *"
    THEN current_time.hour = 19 /\ current_time.minute = 0
    ELSE IF schedule.cron_expression = "*/15 9-16 * * 1-5"
    THEN 9 <= current_time.hour /\ current_time.hour < 16 /\ current_time.weekday < 5
         /\ current_time.minute % 15 = 0
    ELSE IF schedule.cron_expression = "*/30 * * * *"
    THEN current_time.minute % 30 = 0
    ELSE FALSE

\* the for loop of _check_scheduled_jobs from position i on: the first schedule that
\* is enabled and due, or Len(Schedules) + 1 when the loop ends
NextDue(i, t) ==
    LET due == {j \in i..Len(Schedules) :
                   Schedules[j].enabled /\ ShouldRunSchedule(Schedules[j], DateTimeAt(t))}
    IN  IF due = {} THEN Len(Schedules) + 1 ELSE CHOOSE j \in due : \A k \in due : j <= k

\* job_id = f"{data_source.value}_{job_type}_{int(time.time())}", job_type being "extract"
JobId(data_source, now) == [data_source |-> data_source, t |-> now]

\* create_job, then job.status = RUNNING at the head of extract()
JobBegun(data_source, now) ==
    [job_id |-> JobId(data_source, now), data_source |-> data_source, status |-> "running",
     created_at |-> now, duration_seconds |-> -1]

\* the job extract() returns
JobReturned(j, outcome, now) ==
    [j EXCEPT !.status = outcome, !.duration_seconds = now - j.created_at]

\* d[k] = v on a dict
Put(d, k, v) == [x \in DOMAIN d \cup {k} |-> IF x = k THEN v ELSE d[x]]

\* the dict without the keys in ks
Without(d, ks) == [x \in DOMAIN d \ ks |-> d[x]]

\* start(): if self.running: return
StartReturnsEarlyNever(r) == FALSE
StartReturnsEarly(r) == r

\* stop(): if self.scheduler_thread: ... join
JoinNeeded(thread) == thread # NoThread

\* _execute_schedule: except Exception as e: logger.error(...); the for loop goes on
ScheduleExceptPropagates(lp, now) ==
    [lp EXCEPT !.pc = "sleep", !.wake = now + tick_sleep, !.i = 0, !.current_time = -1,
               !.job = NoTrackedJob]
ScheduleExcept(lp, now) ==
    [lp EXCEPT !.pc = "for", !.i = @ + 1, !.job = NoTrackedJob]

\* PipelineMonitor._create_alert: alert_id = f"{alert_type}_{int(utcnow().timestamp())}"
CreateAlert(alert_type, data_source, job_id, now) ==
    [alert_id |-> [alert_type |-> alert_type, t |-> now], alert_type |-> alert_type,
     data_source |-> data_source, job_id |-> job_id, created_at |-> now]

\* PipelineMonitor._calculate_failure_rate, in percent
CalculateFailureRate(data_source) == 0

\* the alerts list monitor_job builds for a job
MonitorJobAlerts(j, now) ==
    (IF j.status = "failed"
     THEN <<CreateAlert("error", j.data_source, j.job_id, now)>> ELSE <<>>)
    \o (IF j.duration_seconds > 0 /\ j.duration_seconds > processing_time
        THEN <<CreateAlert("warning", j.data_source, j.job_id, now)>> ELSE <<>>)
    \o (IF CalculateFailureRate(j.data_source) > job_failure_rate
        THEN <<CreateAlert("warning", j.data_source, NoJobId, now)>> ELSE <<>>)

\* for alert in alerts: self.alerts[alert.alert_id] = alert
RECURSIVE StoreAlerts(_, _)
StoreAlerts(al, new) ==
    IF new = <<>> THEN al
    ELSE StoreAlerts(Put(al, Head(new).alert_id, Head(new)), Tail(new))

\* variant of KeepLast: the trim keeps the oldest entries
KeepLastOldest(seq, n) ==
    IF Len(seq) > n THEN SubSeq(seq, 1, n) ELSE seq
\* self.metrics = self.metrics[-1000:]
KeepLast(seq, n) ==
    IF Len(seq) > n THEN SubSeq(seq, Len(seq) - n + 1, Len(seq)) ELSE seq

\* cleanup_old_jobs / cleanup_old_alerts: the keys created before the cutoff
OlderThan(d, days, now) == {k \in DOMAIN d : d[k].created_at < now - days * SecondsPerDay}

InitScheduler ==
    /\ requests = <<>>
    /\ clock = 0
    /\ limCall = NoCall
    /\ upstream = [resps |-> [i \in 1..MaxResp |-> 200], retry_after |-> <<>>]
    /\ syncCall = Pending
    /\ asyncCall = Pending
    /\ th = NoThreads
    /\ lostStamp = FALSE
    /\ job = NoJob
    /\ ext = NoExtract
    /\ SchedulerConstructed
    /\ RestAsConstructed
    /\ NothingTransformed

\* the clock when a timer set to deadline expires
Expire(deadline) == IF wall < deadline THEN deadline ELSE wall

\* PipelineScheduler.start()
Start ==
    /\ ctl.pc = "idle"
    /\ hist.ops < MaxOps
    /\ LET early == StartReturnsEarly(running)
           unborn == {k \in DOMAIN LoopIds : loops[LoopIds[k]].pc = "unborn"}
           l == LoopIds[CHOOSE k \in unborn : \A m \in unborn : k <= m]
       IN  /\ early \/ unborn # {}
           /\ running' = IF early THEN running ELSE TRUE
           /\ scheduler_thread' = IF early THEN scheduler_thread ELSE l
           /\ loops' = IF early THEN loops ELSE [loops EXCEPT ![l].pc = "while"]
           /\ hist' = [hist EXCEPT !.ops = @ + 1, !.last_op = "start",
                                   !.seen = IF running THEN @ \cup {"start_running"} ELSE @]
    /\ UNCHANGED <<wall, last_run, jobs, alerts, metrics, ctl, caller>>
    /\ UNCHANGED <<limiterVars, clientVars, threadVars, extractVars, pureVars, otherVars>>

\* PipelineScheduler.stop() up to the join: self.running = False
Stop ==
    /\ ctl.pc = "idle"
    /\ hist.ops < MaxOps
    /\ running' = FALSE
    /\ ctl' = IF JoinNeeded(scheduler_thread)
              THEN IF scheduler_thread = NoThread
                   THEN [pc |-> "AttributeError", deadline |-> -1]
                   ELSE [pc |-> "join", deadline |-> wall + join_timeout]
              ELSE CtlIdle
    /\ hist' = [hist EXCEPT !.ops = @ + 1, !.last_op = "stop",
                            !.seen = @ \cup (IF scheduler_thread = NoThread THEN {"stop_unstarted"} ELSE {})
                                       \cup (IF hist.last_op = "stop" THEN {"stop_twice"} ELSE {})]
    /\ UNCHANGED <<scheduler_thread, loops, wall, last_run, jobs, alerts, metrics, caller>>
    /\ UNCHANGED <<limiterVars, clientVars, threadVars, extractVars, pureVars, otherVars>>

\* self.scheduler_thread.join(timeout=5) returns: the thread has ended or the timeout expired
JoinReturns ==
    /\ ctl.pc = "join"
    /\ IF loops[scheduler_thread].pc = "dead"
       THEN UNCHANGED wall
       ELSE /\ Expire(ctl.deadline) <= MaxWall
            /\ wall' = Expire(ctl.deadline)
    /\ ctl' = CtlIdle
    /\ UNCHANGED <<running, scheduler_thread, loops, last_run, jobs, alerts, metrics, caller, hist>>
    /\ UNCHANGED <<limiterVars, clientVars, threadVars, extractVars, pureVars, otherVars>>

\* _run_scheduler: while self.running; entering _check_scheduled_jobs reads datetime.now()
WhileRunning(l) ==
    /\ loops[l].pc = "while"
    /\ loops' = [loops EXCEPT ![l] = IF running
                                     THEN [@ EXCEPT !.pc = "for", !.i = 1, !.current_time = wall]
                                     ELSE [@ EXCEPT !.pc = "dead"]]
    /\ UNCHANGED <<running, scheduler_thread, wall, last_run, jobs, alerts, metrics, ctl, caller, hist>>
    /\ UNCHANGED <<limiterVars, clientVars, threadVars, extractVars, pureVars, otherVars>>

\* _check_scheduled_jobs: the for loop runs to the next due schedule and enters
\* _execute_schedule, which sets last_run and calls extract(); or the loop ends
\* and _run_scheduler sleeps
ForSchedule(l) ==
    /\ loops[l].pc = "for"
    /\ LET j == NextDue(loops[l].i, loops[l].current_time)
       IN  IF j > Len(Schedules)
           THEN /\ loops' = [loops EXCEPT ![l] = [@ EXCEPT !.pc = "sleep", !.i = 0,
                                                           !.current_time = -1,
                                                           !.wake = wall + tick_sleep]]
                /\ UNCHANGED last_run
           ELSE /\ last_run' = [last_run EXCEPT ![j] = wall]
                /\ loops' = [loops EXCEPT ![l] = [@ EXCEPT !.pc = "extract", !.i = j,
                                   !.job = JobBegun(Schedules[j].data_source, wall)]]
    /\ UNCHANGED <<running, scheduler_thread, wall, jobs, alerts, metrics, ctl, caller, hist>>
    /\ UNCHANGED <<limiterVars, clientVars, threadVars, extractVars, pureVars, otherVars>>

\* _execute_schedule: extract() returns the job, self.jobs[job.job_id] = job; or it raises
ExtractReturns(l) ==
    /\ loops[l].pc = "extract"
    /\ \E outcome \in ExtractOutcomes :
          IF outcome = "raise"
          THEN /\ loops' = [loops EXCEPT ![l] = ScheduleExcept(@, wall)]
               /\ hist' = [hist EXCEPT !.raised = l]
               /\ UNCHANGED jobs
          ELSE /\ jobs' = Put(jobs, loops[l].job.job_id, JobReturned(loops[l].job, outcome, wall))
               /\ hist' = [hist EXCEPT !.recorded = @ + 1]
               /\ loops' = [loops EXCEPT ![l] = [@ EXCEPT !.pc = "for", !.i = @ + 1,
                                                          !.job = NoTrackedJob]]
    /\ UNCHANGED <<running, scheduler_thread, wall, last_run, alerts, metrics, ctl, caller>>
    /\ UNCHANGED <<limiterVars, clientVars, threadVars, extractVars, pureVars, otherVars>>

\* time.sleep(60) returns
SleepReturns(l) ==
    /\ loops[l].pc = "sleep"
    /\ Expire(loops[l].wake) <= MaxWall
    /\ wall' = Expire(loops[l].wake)
    /\ loops' = [loops EXCEPT ![l] = [@ EXCEPT !.pc = "while", !.wake = -1]]
    /\ UNCHANGED <<running, scheduler_thread, last_run, jobs, alerts, metrics, ctl, caller, hist>>
    /\ UNCHANGED <<limiterVars, clientVars, threadVars, extractVars, pureVars, otherVars>>

\* DataPipeline.run_data_source (and each round of run_full_pipeline) calls
\* scheduler.run_immediate, which calls extract()
RunImmediate ==
    /\ caller.pc = "idle"
    /\ hist.runs < MaxRuns
    /\ \E src \in AdHocSources :
          caller' = [pc |-> "extract", job |-> JobBegun(src, wall)]
    /\ hist' = [hist EXCEPT !.runs = @ + 1]
    /\ UNCHANGED <<running, scheduler_thread, loops, wall, last_run, jobs, alerts, metrics, ctl>>
    /\ UNCHANGED <<limiterVars, clientVars, threadVars, extractVars, pureVars, otherVars>>

\* run_immediate: extract() returns, self.jobs[job.job_id] = job, return job; when
\* it raises, run_data_source returns an error dict
ImmediateReturns ==
    /\ caller.pc = "extract"
    /\ \E outcome \in ExtractOutcomes :
          IF outcome = "raise"
          THEN /\ caller' = CallerIdle
               /\ UNCHANGED <<jobs, hist>>
          ELSE /\ jobs' = Put(jobs, caller.job.job_id, JobReturned(caller.job, outcome, wall))
               /\ hist' = [hist EXCEPT !.recorded = @ + 1]
               /\ caller' = [pc |-> "stored", job |-> JobReturned(caller.job, outcome, wall)]
    /\ UNCHANGED <<running, scheduler_thread, loops, wall, last_run, alerts, metrics, ctl>>
    /\ UNCHANGED <<limiterVars, clientVars, threadVars, extractVars, pureVars, otherVars>>

\* DataPipeline._process_job: monitor_job, collect_metrics; _load_raw_data returns []
\* so nothing is transformed
ProcessJob ==
    /\ caller.pc = "stored"
    /\ alerts' = StoreAlerts(alerts, MonitorJobAlerts(caller.job, wall))
    /\ metrics' = KeepLast(Append(metrics, caller.job.job_id), metrics_cap)
    /\ caller' = CallerIdle
    /\ UNCHANGED <<running, scheduler_thread, loops, wall, last_run, jobs, ctl, hist>>
    /\ UNCHANGED <<limiterVars, clientVars, threadVars, extractVars, pureVars, otherVars>>

\* DataPipeline.cleanup(days): scheduler.cleanup_old_jobs, monitor.cleanup_old_alerts
Cleanup ==
    /\ caller.pc = "idle"
    /\ \E days \in CleanupDays :
          /\ jobs' = Without(jobs, OlderThan(jobs, days, wall))
          /\ alerts' = Without(alerts, OlderThan(alerts, days, wall))
          /\ hist' = [hist EXCEPT !.recorded = @ - Cardinality(OlderThan(jobs, days, wall))]
    /\ UNCHANGED <<running, scheduler_thread, loops, wall, last_run, metrics, ctl, caller>>
    /\ UNCHANGED <<limiterVars, clientVars, threadVars, extractVars, pureVars, otherVars>>

\* start(), stop() and the threads they spawn
NextScheduler ==
    \/ Start
    \/ Stop
    \/ JoinReturns
    \/ \E l \in Range(LoopIds) : WhileRunning(l)
    \/ \E l \in Range(LoopIds) : ForSchedule(l)
    \/ \E l \in Range(LoopIds) : ExtractReturns(l)
    \/ \E l \in Range(LoopIds) : SleepReturns(l)

SpecScheduler == InitScheduler /\ [][NextScheduler]_vars

\* DataPipeline: start() starts the scheduler; ad hoc runs and cleanup go on beside its ticks
NextPipeline ==
    \/ Start
    \/ \E l \in Range(LoopIds) : WhileRunning(l)
    \/ \E l \in Range(LoopIds) : ForSchedule(l)
    \/ \E l \in Range(LoopIds) : ExtractReturns(l)
    \/ \E l \in Range(LoopIds) : SleepReturns(l)
    \/ RunImmediate
    \/ ImmediateReturns
    \/ ProcessJob
    \/ Cleanup

SpecPipeline == InitScheduler /\ [][NextPipeline]_vars

----------------------------------------------------------------------------
(* Properties of the scheduler *)

\* C11: at most one invocation of a given schedule is running at any time,
\* under every interleaving of start(), stop() and the steps of the tick
\* loops: no two threads are inside _execute_schedule for the same schedule.
\* Checked under SpecScheduler.
C11_OneInvocationPerSchedule ==
    \A l1 \in Range(LoopIds), l2 \in Range(LoopIds) :
        (l1 # l2 /\ loops[l1].pc = "extract" /\ loops[l2].pc = "extract")
            => loops[l1].i # loops[l2].i

\* a step in which the extract() call of thread l raised
Raised(l) ==
    /\ loops[l].pc = "extract"
    /\ loops'[l] # loops[l]
    /\ hist'.recorded = hist.recorded

\* C12: an exception raised while executing a schedule does not leave the
\* tick loop: the thread goes on with the next schedule of the same tick
\* (same current_time), a thread only ends when it reads running = False at
\* the head of the loop, and after its sleep it is at the head of the loop
\* again.  Checked under SpecScheduler.
C12_ExceptionStaysInLoop ==
    [][\A l \in Range(LoopIds) :
          /\ Raised(l) => /\ loops'[l].pc = "for"
                          /\ loops'[l].i = loops[l].i + 1
                          /\ loops'[l].current_time = loops[l].current_time
          /\ (loops[l].pc # "dead" /\ loops'[l].pc = "dead")
                => (loops[l].pc = "while" /\ ~running)
          /\ (loops[l].pc = "sleep" /\ loops'[l].pc # "sleep") => loops'[l].pc = "while"]_vars

\* a thread whose extract() raised in a tick is evaluating the schedules of a later tick
C12_Witness ==
    \E l \in Range(LoopIds) :
        /\ hist.raised = l
        /\ loops[l].pc = "for"
        /\ loops[l].i = 1
        /\ loops[l].current_time >= tick_sleep

\* C13: stop() returns without error and leaves the scheduler not running,
\* also when it was never started; a stop() that follows a stop() changes
\* nothing; start() on a running scheduler spawns no thread and leaves it
\* running.  Checked under SpecScheduler.
C13_StopIdempotentStartOnce ==
    [][/\ ctl'.pc # "AttributeError"
       /\ (hist'.ops # hist.ops /\ hist'.last_op = "stop")
             => /\ ~running'
                /\ <<scheduler_thread, loops, jobs>>' = <<scheduler_thread, loops, jobs>>
                /\ hist.last_op = "stop" => running' = running
       /\ (ctl.pc = "join" /\ ctl'.pc = "idle") => ~running'
       /\ (hist'.ops # hist.ops /\ hist'.last_op = "start" /\ running)
             => /\ running'
                /\ <<scheduler_thread, loops>>' = <<scheduler_thread, loops>>]_vars

\* stop() was called before any start(), stop() was called twice in a row, and
\* start() was called on a running scheduler, which still has its one thread
C13_Witness ==
    /\ hist.seen = {"stop_unstarted", "stop_twice", "start_running"}
    /\ hist.last_op = "start"
    /\ running
    /\ scheduler_thread = LoopIds[1]
    /\ loops[LoopIds[2]].pc = "unborn"

\* C29: at most one tick loop is alive at any time, under every sequence of
\* start() and stop() calls: of the threads start() has spawned, at most one
\* has not ended.  Checked under SpecScheduler.
C29_OneLoopAlive ==
    Cardinality({l \in Range(LoopIds) : loops[l].pc \notin {"unborn", "dead"}}) <= 1

----------------------------------------------------------------------------
(* Properties of the job tracker and the monitor *)

\* C14: job ids are unique, so recording a job never replaces another job's
\* record: the number of jobs in the tracker equals the number of
\* extractions recorded by schedule ticks and run_immediate less the records
\* cleanup_old_jobs removed for age.  Checked under SpecPipeline.
C14_JobIdsUnique ==
    Cardinality(DOMAIN jobs) = hist.recorded

\* get_job_status(job_id) returns a job with this status, which list_jobs(status) lists
Findable(j) ==
    /\ j.job_id \in DOMAIN jobs
    /\ jobs[j.job_id].status = j.status

\* C15: a job is in the tracker from its creation on: the job of every
\* extract() call in progress, by a schedule tick or by run_immediate, can be
\* found with get_job_status and list_jobs(RUNNING).  Checked under
\* SpecPipeline.
C15_RunningJobTracked ==
    /\ \A l \in Range(LoopIds) : loops[l].pc = "extract" => Findable(loops[l].job)
    /\ caller.pc = "extract" => Findable(caller.job)

\* C16: every job that ended Failed, run by a schedule tick or ad hoc, and
\* whose handling (_execute_schedule, resp. _process_job) has returned, has
\* an error alert carrying its job id in the monitor's alerts.  Checked under
\* SpecPipeline.
C16_FailedJobAlerted ==
    \A id \in DOMAIN jobs :
        (jobs[id].status = "failed" /\ ~(caller.pc = "stored" /\ caller.job.job_id = id))
            => \E a \in DOMAIN alerts :
                  alerts[a].alert_type = "error" /\ alerts[a].job_id = id

\* the failure rate of a source's jobs in the tracker (failed jobs over jobs of
\* that source) is above the job_failure_rate threshold
FailureRateExceeds(data_source) ==
    LET of == {id \in DOMAIN jobs : jobs[id].data_source = data_source}
        failed == {id \in of : jobs[id].status = "failed"}
    IN  of # {} /\ Cardinality(failed) * 100 > job_failure_rate * Cardinality(of)

\* C22: when monitor_job is called for a job whose source type has a failure
\* rate above the job_failure_rate threshold, the call stores a warning
\* alert for that source (a high-failure-rate alert carries no job id).
\* Checked under SpecPipeline.
C22_FailureRateAlerted ==
    [][(caller.pc = "stored" /\ caller'.pc = "idle"
           /\ FailureRateExceeds(caller.job.data_source))
          => \E a \in DOMAIN alerts' :
                /\ alerts'[a].alert_type = "warning"
                /\ alerts'[a].data_source = caller.job.data_source
                /\ alerts'[a].job_id = NoJobId]_vars

\* C23: a monitor_job call leaves every alert already in the collection in
\* place and unchanged, and the collection grows by the number of alerts the
\* call returned.  Checked under SpecPipeline.
C23_AlertsAccumulate ==
    [][(caller.pc = "stored" /\ caller'.pc = "idle")
          => /\ \A a \in DOMAIN alerts : a \in DOMAIN alerts' /\ alerts'[a] = alerts[a]
             /\ Cardinality(DOMAIN alerts')
                   = Cardinality(DOMAIN alerts) + Len(MonitorJobAlerts(caller.job, wall))]_vars

----------------------------------------------------------------------------
(* PipelineMonitor.collect_metrics on a monitor that has collected metrics *)
(* before.  A metrics record is named by the ordinal of the call that      *)
(* inserted it.                                                            *)

\* the monitor after k calls of collect_metrics, k <= 1000
InitMetrics ==
    /\ requests = <<>>
    /\ clock = 0
    /\ limCall = NoCall
    /\ upstream = [resps |-> [i \in 1..MaxResp |-> 200], retry_after |-> <<>>]
    /\ syncCall = Pending
    /\ asyncCall = Pending
    /\ th = NoThreads
    /\ lostStamp = FALSE
    /\ job = NoJob
    /\ ext = NoExtract
    /\ SchedulerConstructed
    /\ NothingTransformed
    /\ validityCall = NoValidity
    /\ cronCall = NoCron
    /\ tickLoop = NoTicks
    /\ \E k \in 0..metrics_cap : mon = [metrics |-> [i \in 1..k |-> i], inserted |-> k]
    /\ disk = NoFiles
    /\ sent = <<>>

\* collect_metrics: self.metrics.append(metrics); if len(self.metrics) > 1000: trim
CollectMetrics ==
    /\ mon.inserted < metrics_cap + MaxCollects
    /\ mon' = [metrics |-> KeepLast(Append(mon.metrics, mon.inserted + 1), metrics_cap),
               inserted |-> mon.inserted + 1]
    /\ UNCHANGED <<validityCall, cronCall, tickLoop, disk, sent>>
    /\ UNCHANGED <<limiterVars, clientVars, threadVars, extractVars, schedVars, pureVars>>

NextMetrics == CollectMetrics

SpecMetrics == InitMetrics /\ [][NextMetrics]_vars

\* C24: after any number of collect_metrics calls the metrics list holds at
\* most 1000 records, and they are the most recently inserted ones in
\* insertion order.  Checked under SpecMetrics.
C24_MetricsRolling ==
    /\ Len(mon.metrics) <= metrics_cap
    /\ Len(mon.metrics) = (IF mon.inserted < metrics_cap THEN mon.inserted ELSE metrics_cap)
    /\ \A i \in DOMAIN mon.metrics : mon.metrics[i] = mon.inserted - Len(mon.metrics) + i

\* the list was trimmed twice: the two oldest records are gone
C24_Witness ==
    /\ mon.inserted = metrics_cap + 2
    /\ Len(mon.metrics) = metrics_cap
    /\ mon.metrics[1] = 3

----------------------------------------------------------------------------
(* The response parsers (src/updated_yahoo_client.py, src/walmart_client.py) *)
(* applied to one payload.  An element of the payload is a dict or not; a    *)
(* dict has the identifying key ("symbol", resp. "id") or not, with a value  *)
(* that is None, the empty string or a symbol; rest_ok tells whether its     *)
(* other fields pass the model's validation.                                 *)

Parsers == {"parse_tickers_response", "parse_quotes_response", "parse_category_response"}
KeyValues == {NONE, "", "AAPL"}
NonDict == [is_dict |-> FALSE, has_key |-> FALSE, key |-> NONE, rest_ok |-> FALSE]
RawElements ==
    {NonDict}
    \cup {[is_dict |-> TRUE, has_key |-> FALSE, key |-> NONE, rest_ok |-> ok] : ok \in BOOLEAN}
    \cup {[is_dict |-> TRUE, has_key |-> TRUE, key |-> v, rest_ok |-> ok] :
             v \in KeyValues, ok \in BOOLEAN}
RawBodies == UNION {[1..k -> RawElements] : k \in 0..MaxRecords}
\* response_data: the list key ("body", resp. "products") is absent, holds None, or holds a list
ResponseData ==
    {[list_key |-> "list", body |-> b] : b \in RawBodies}
    \cup {[list_key |-> k, body |-> <<>>] : k \in {"absent", "None"}}

\* ticker_data.get("symbol"), resp. product_data.get("id")
Get(e) == IF e.has_key THEN e.key ELSE NONE

\* parse_ticker_data / parse_quote_data: Stock(**parsed_data) after the None values
\* are removed; symbol: str is required
ParseTickerData(e) ==
    IF ~e.is_dict THEN [raised |-> "AttributeError", record |-> [key |-> NONE]]
    ELSE IF Get(e) = NONE \/ ~e.rest_ok
    THEN [raised |-> "ValidationError", record |-> [key |-> NONE]]
    ELSE [raised |-> NONE, record |-> [key |-> Get(e)]]

\* parse_product_data: WalmartProduct(**parsed_data); product_id: Optional[str] = None
ParseProductData(e) ==
    IF ~e.is_dict THEN [raised |-> "AttributeError", record |-> [key |-> NONE]]
    ELSE IF ~e.rest_ok
    THEN [raised |-> "ValidationError", record |-> [key |-> NONE]]
    ELSE [raised |-> NONE, record |-> [key |-> Get(e)]]

ParseElementWith(parser, e) ==
    IF parser = "parse_category_response" THEN ParseProductData(e) ELSE ParseTickerData(e)

\* the loop over the elements: except ValidationError: continue; anything else is re-raised
RECURSIVE ParseElements(_, _, _)
ParseElements(parser, body, records) ==
    IF body = <<>> THEN [raised |-> NONE, records |-> records]
    ELSE LET r == ParseElementWith(parser, Head(body))
         IN  IF r.raised = NONE
             THEN ParseElements(parser, Tail(body), Append(records, r.record))
             ELSE IF r.raised = "ValidationError"
             THEN ParseElements(parser, Tail(body), records)
             ELSE [raised |-> r.raised, records |-> <<>>]

\* parse_tickers_response / parse_quotes_response:
\* if "body" in response_data and isinstance(response_data["body"], list)
ParseYahooResponse(parser, response_data) ==
    IF response_data.list_key = "list"
    THEN ParseElements(parser, response_data.body, <<>>)
    ELSE [raised |-> NONE, records |-> <<>>]

\* parse_category_response: if "products" in response_data: for product_data in ...
ParseCategoryResponse(response_data) ==
    IF response_data.list_key = "absent" THEN [raised |-> NONE, records |-> <<>>]
    ELSE IF response_data.list_key = "None" THEN [raised |-> "TypeError", records |-> <<>>]
    ELSE ParseElements("parse_category_response", response_data.body, <<>>)

RunParser(parser, response_data) ==
    IF parser = "parse_category_response" THEN ParseCategoryResponse(response_data)
    ELSE ParseYahooResponse(parser, response_data)

InitParser ==
    /\ requests = <<>>
    /\ clock = 0
    /\ limCall = NoCall
    /\ upstream = [resps |-> [i \in 1..MaxResp |-> 200], retry_after |-> <<>>]
    /\ syncCall = Pending
    /\ asyncCall = Pending
    /\ th = NoThreads
    /\ lostStamp = FALSE
    /\ job = NoJob
    /\ ext = NoExtract
    /\ SchedulerConstructed
    /\ RestAsConstructed
    /\ \E parser \in Parsers, response_data \in ResponseData :
          parseCall = [NoParse EXCEPT !.parser = parser, !.payload = response_data]
    /\ cleanCall = NoClean
    /\ qualityCall = NoQuality

\* the parser is called with the payload
Parse ==
    /\ parseCall.pc = "input"
    /\ LET r == RunParser(parseCall.parser, parseCall.payload)
       IN  parseCall' = [parseCall EXCEPT !.pc = "done", !.raised = r.raised, !.records = r.records]
    /\ UNCHANGED <<cleanCall, qualityCall>>
    /\ UNCHANGED <<limiterVars, clientVars, threadVars, extractVars, schedVars, otherVars>>

NextParser == Parse

SpecParser == InitParser /\ [][NextParser]_vars

\* C17: for every payload given to a parser, the parser does not raise, the
\* number of returned records is at most the number of input elements, and
\* every returned record has a present, non-empty identifying key.  Checked
\* under SpecParser.
C17_RecordsHaveKey ==
    parseCall.pc = "done" =>
        /\ parseCall.payload.list_key = "list" => parseCall.raised = NONE
        /\ Len(parseCall.records) <= Len(parseCall.payload.body)
        /\ \A k \in DOMAIN parseCall.records : parseCall.records[k].key \notin {NONE, ""}

\* C18: a payload whose list key is missing or does not hold a list makes the
\* parser end with a failure, not with a result of zero records.  Checked
\* under SpecParser.
C18_TopLevelFailureReported ==
    (parseCall.pc = "done" /\ parseCall.payload.list_key # "list")
        => parseCall.raised # NONE

----------------------------------------------------------------------------
(* DataCleaner (src/data_pipeline/transformers.py).  A record is a dict: a *)
(* function from its keys to values; a value is None, an int, a float or a *)
(* str, the latter being a sequence of characters.                         *)

None == [t |-> "None", n |-> 0, s |-> <<>>]
IntVal(n) == [t |-> "int", n |-> n, s |-> <<>>]
FloatVal(n) == [t |-> "float", n |-> n, s |-> <<>>]
StrVal(s) == [t |-> "str", n |-> 0, s |-> s]

DigitChars == <<"0", "1", "2", "3", "4", "5", "6", "7", "8", "9">>

\* str(v) of a str or of an int in 0..9
StrOf(v) == IF v.t = "str" THEN v.s ELSE <<DigitChars[v.n + 1]>>

\* s.strip()
RECURSIVE LStrip(_)
LStrip(s) == IF s # <<>> /\ Head(s) = " " THEN LStrip(Tail(s)) ELSE s
RECURSIVE RStrip(_)
RStrip(s) == IF s # <<>> /\ s[Len(s)] = " " THEN RStrip(SubSeq(s, 1, Len(s) - 1)) ELSE s
Strip(s) == RStrip(LStrip(s))

\* s.upper(), for the letters used here
Upper(s) == [k \in DOMAIN s |-> IF s[k] = "a" THEN "A" ELSE IF s[k] = "x" THEN "X" ELSE s[k]]

\* s.replace(c, "")
RECURSIVE Remove(_, _)
Remove(s, c) ==
    IF s = <<>> THEN <<>>
    ELSE IF Head(s) = c THEN Remove(Tail(s), c) ELSE <<Head(s)>> \o Remove(Tail(s), c)

DigitOf(c) == (CHOOSE d \in DOMAIN DigitChars : DigitChars[d] = c) - 1
RECURSIVE Decimal(_, _)
Decimal(s, acc) == IF s = <<>> THEN acc ELSE Decimal(Tail(s), acc * 10 + DigitOf(Head(s)))

\* float(s) of a string of spaces, digits and other characters: the value, or
\* None where float() raises ValueError
FloatOfStr(s) ==
    LET body == Strip(s)
    IN  IF body # <<>> /\ \A k \in DOMAIN body : body[k] \in Range(DigitChars)
        THEN FloatVal(Decimal(body, 0))
        ELSE None

\* DataCleaner._parse_market_cap
ParseMarketCap(market_cap_str) == FloatOfStr(Remove(market_cap_str, ","))

\* DataCleaner._parse_numeric
ParseNumeric(value) ==
    IF value.t = "None" THEN None
    ELSE IF value.t \in {"int", "float"} THEN FloatVal(value.n)
    ELSE FloatOfStr(Strip(Remove(Remove(Remove(value.s, ","), "$"), "%")))

\* {k: v for k, v in record.items() if v is not None}
RemoveNone(record) == [k \in {x \in DOMAIN record : record[x] # None} |-> record[k]]

\* DataCleaner._clean_stock_record
CleanStockRecord(stock) ==
    LET c0 == RemoveNone(stock)
        c1 == IF "symbol" \in DOMAIN c0
              THEN Put(c0, "symbol", StrVal(Upper(Strip(StrOf(c0["symbol"]))))) ELSE c0
        c2 == IF "name" \in DOMAIN c1
              THEN Put(c1, "name", StrVal(Strip(StrOf(c1["name"])))) ELSE c1
        c3 == IF "market_cap" \in DOMAIN c2 /\ c2["market_cap"].t = "str"
              THEN Put(c2, "market_cap", ParseMarketCap(c2["market_cap"].s)) ELSE c2
    IN  IF "currency" \notin DOMAIN c3 THEN Put(c3, "currency", StrVal(<<"U", "S", "D">>)) ELSE c3

numeric_fields == <<"price", "previous_close", "open", "high", "low", "volume", "market_cap",
                    "pe_ratio", "dividend_yield", "change", "change_percent">>

\* for field in numeric_fields: if field in cleaned: cleaned[field] = self._parse_numeric(...)
RECURSIVE CleanNumeric(_, _)
CleanNumeric(cleaned, fields) ==
    IF fields = <<>> THEN cleaned
    ELSE CleanNumeric(IF Head(fields) \in DOMAIN cleaned
                      THEN Put(cleaned, Head(fields), ParseNumeric(cleaned[Head(fields)]))
                      ELSE cleaned,
                      Tail(fields))

\* DataCleaner._clean_quote_record
CleanQuoteRecord(quote) ==
    LET c0 == RemoveNone(quote)
        c1 == IF "symbol" \in DOMAIN c0
              THEN Put(c0, "symbol", StrVal(Upper(Strip(StrOf(c0["symbol"]))))) ELSE c0
        c2 == CleanNumeric(c1, numeric_fields)
    IN  IF "currency" \notin DOMAIN c2 THEN Put(c2, "currency", StrVal(<<"U", "S", "D">>)) ELSE c2

\* clean_stock_data / clean_quote_data: the cleaned records, in order; a cleaned
\* record is never empty, so none is dropped
CleanData(kind, data) ==
    [k \in DOMAIN data |-> IF kind = "clean_stock_data" THEN CleanStockRecord(data[k])
                           ELSE CleanQuoteRecord(data[k])]

\* the records the cleaner is given: each key is absent or holds one of a few values
Absent == [t |-> "absent", n |-> 0, s |-> <<>>]
DictOf(f) == [k \in {x \in DOMAIN f : f[x] # Absent} |-> f[k]]
StockInputs ==
    {DictOf(f) : f \in [symbol : {Absent, None, StrVal(<<" ", "a">>), IntVal(7)},
                        name : {Absent, StrVal(<<"a", " ">>)},
                        market_cap : {Absent, None, FloatVal(10), StrVal(<<"1", ",", "0">>), StrVal(<<"x">>)},
                        currency : {Absent, StrVal(<<"E", "U", "R">>)}]}
QuoteInputs ==
    {DictOf(f) : f \in [symbol : {Absent, StrVal(<<" ", "a">>)},
                        price : {Absent, None, IntVal(7), StrVal(<<"$", "1", ",", "0">>), StrVal(<<"x">>)},
                        volume : {Absent, StrVal(<<"1", "%">>), StrVal(<<>>)},
                        currency : {Absent, StrVal(<<"E", "U", "R">>)}]}
CleanKinds == {"clean_stock_data", "clean_quote_data"}
CleanInputs(kind) ==
    LET recs == IF kind = "clean_stock_data" THEN StockInputs ELSE QuoteInputs
    IN  UNION {[1..k -> recs] : k \in 0..MaxCleanLen}

InitClean ==
    /\ requests = <<>>
    /\ clock = 0
    /\ limCall = NoCall
    /\ upstream = [resps |-> [i \in 1..MaxResp |-> 200], retry_after |-> <<>>]
    /\ syncCall = Pending
    /\ asyncCall = Pending
    /\ th = NoThreads
    /\ lostStamp = FALSE
    /\ job = NoJob
    /\ ext = NoExtract
    /\ SchedulerConstructed
    /\ RestAsConstructed
    /\ parseCall = NoParse
    /\ \E kind \in CleanKinds : \E data \in CleanInputs(kind) :
          cleanCall = [NoClean EXCEPT !.kind = kind, !.data = data]
    /\ qualityCall = NoQuality

\* the Clean stage runs on the input
CleanOnce ==
    /\ cleanCall.pc = "input"
    /\ cleanCall' = [cleanCall EXCEPT !.pc = "once", !.once = CleanData(cleanCall.kind, cleanCall.data)]
    /\ UNCHANGED <<parseCall, qualityCall>>
    /\ UNCHANGED <<limiterVars, clientVars, threadVars, extractVars, schedVars, otherVars>>

\* the Clean stage runs again on its own output
CleanAgain ==
    /\ cleanCall.pc = "once"
    /\ cleanCall' = [cleanCall EXCEPT !.pc = "twice", !.twice = CleanData(cleanCall.kind, cleanCall.once)]
    /\ UNCHANGED <<parseCall, qualityCall>>
    /\ UNCHANGED <<limiterVars, clientVars, threadVars, extractVars, schedVars, otherVars>>

NextClean == CleanOnce \/ CleanAgain

SpecClean == InitClean /\ [][NextClean]_vars

\* C19: cleaning is idempotent: for every input record list, cleaning the
\* output of clean_stock_data (resp. clean_quote_data) again yields records
\* identical to that output.  Checked under SpecClean.
C19_CleanIdempotent ==
    cleanCall.pc = "twice" => cleanCall.twice = cleanCall.once

----------------------------------------------------------------------------
(* DataValidator._check_completeness (src/data_pipeline/transformers.py).  *)
(* A record of the batch is the set of the fields it holds with a value    *)
(* other than None.                                                        *)

DataTypes == {"market_tickers", "stock_quotes", "stock_history", "market_screeners", "stock_news"}

\* DataValidator._get_required_fields
GetRequiredFields(data_type) ==
    IF data_type = "market_tickers" THEN <<"symbol", "name">>
    ELSE IF data_type = "stock_quotes" THEN <<"symbol", "price">>
    ELSE IF data_type = "stock_history" THEN <<"symbol", "date", "close">>
    ELSE IF data_type = "market_screeners" THEN <<"symbol", "screener_type">>
    ELSE IF data_type = "stock_news" THEN <<"symbol", "title", "url">>
    ELSE <<"symbol">>

\* len(missing_fields): one entry per record and required field the record lacks
RECURSIVE MissingFields(_, _)
MissingFields(data, required_fields) ==
    IF data = <<>> THEN 0
    ELSE Cardinality({k \in DOMAIN required_fields : required_fields[k] \notin Head(data)})
         + MissingFields(Tail(data), required_fields)

\* the status of the completeness check; missing_percentage > 20 and > 10 are
\* compared after multiplying by len(data) * len(required_fields)
CheckCompleteness(data, data_type) ==
    IF data = <<>> THEN [status |-> "error", missing |-> 0]
    ELSE LET required_fields == GetRequiredFields(data_type)
             missing == MissingFields(data, required_fields)
             slots == Len(data) * Len(required_fields)
         IN  [status |-> IF missing * 100 > 20 * slots THEN "error"
                         ELSE IF missing * 100 > 10 * slots THEN "warning"
                         ELSE "valid",
              missing |-> missing]

\* a batch of n records of which the first `lacking` lack the fields in `lack`
BatchOf(data_type, n, lacking, lack) ==
    [k \in 1..n |-> IF k <= lacking THEN Range(GetRequiredFields(data_type)) \ lack
                    ELSE Range(GetRequiredFields(data_type))]

InitQuality ==
    /\ requests = <<>>
    /\ clock = 0
    /\ limCall = NoCall
    /\ upstream = [resps |-> [i \in 1..MaxResp |-> 200], retry_after |-> <<>>]
    /\ syncCall = Pending
    /\ asyncCall = Pending
    /\ th = NoThreads
    /\ lostStamp = FALSE
    /\ job = NoJob
    /\ ext = NoExtract
    /\ SchedulerConstructed
    /\ RestAsConstructed
    /\ parseCall = NoParse
    /\ cleanCall = NoClean
    /\ \E data_type \in DataTypes, n \in 0..MaxBatch :
          \E lacking \in 0..n, lack \in SUBSET Range(GetRequiredFields(data_type)) \ {{}} :
              qualityCall = [NoQuality EXCEPT !.data_type = data_type, !.n = n,
                                              !.lacking = lacking, !.lack = lack]

\* validate_data_quality runs the completeness check on the batch
CheckBatch ==
    /\ qualityCall.pc = "input"
    /\ LET r == CheckCompleteness(BatchOf(qualityCall.data_type, qualityCall.n,
                                          qualityCall.lacking, qualityCall.lack),
                                  qualityCall.data_type)
       IN  qualityCall' = [qualityCall EXCEPT !.pc = "done", !.status = r.status,
                                              !.missing = r.missing]
    /\ UNCHANGED <<parseCall, cleanCall>>
    /\ UNCHANGED <<limiterVars, clientVars, threadVars, extractVars, schedVars, otherVars>>

NextQuality == CheckBatch

SpecQuality == InitQuality /\ [][NextQuality]_vars

\* C20: for a batch in which exactly 25% of the records lack a required
\* field the completeness status is Error, with exactly 15% it is Warning,
\* and with exactly 5% it is Valid, for each source type's required-field
\* set.  Checked under SpecQuality.
C20_CompletenessThresholds ==
    (qualityCall.pc = "done" /\ qualityCall.n > 0) =>
        /\ qualityCall.lacking * 100 = 25 * qualityCall.n => qualityCall.status = "error"
        /\ qualityCall.lacking * 100 = 15 * qualityCall.n => qualityCall.status = "warning"
        /\ qualityCall.lacking * 100 = 5 * qualityCall.n => qualityCall.status = "valid"

----------------------------------------------------------------------------
(* DataValidator._check_validity (src/data_pipeline/transformers.py) on a  *)
(* batch of quote records.                                                 *)

\* the values a record's price has when it breaks the price rule
BadPrices == {None, IntVal(0), FloatVal(-1)}
ValidityTypes == {"stock_quotes", "stock_news"}

\* the entries one record adds to invalid_records
InvalidEntries(data_type, record) ==
    IF data_type = "stock_quotes"
    THEN (IF "price" \in DOMAIN record /\ (record.price = None \/ record.price.n <= 0)
          THEN 1 ELSE 0)
         + (IF "volume" \in DOMAIN record /\ record.volume # None /\ record.volume.n < 0
            THEN 1 ELSE 0)
    ELSE 0

\* len(invalid_records) after the loop over the batch
RECURSIVE InvalidRecords(_, _)
InvalidRecords(data, data_type) ==
    IF data = <<>> THEN 0
    ELSE InvalidEntries(data_type, Head(data)) + InvalidRecords(Tail(data), data_type)

\* the status of the validity check; invalid_percentage > 10 and > 5 are
\* compared after multiplying by len(data)
CheckValidity(data, data_type) ==
    LET invalid == InvalidRecords(data, data_type)
    IN  [status |-> IF data = <<>> THEN "valid"
                    ELSE IF invalid * 100 > 10 * Len(data) THEN "error"
                    ELSE IF invalid * 100 > 5 * Len(data) THEN "warning"
                    ELSE "valid",
         invalid |-> invalid]

\* a batch of n quotes: the first bad_price of them have the price bad, the next
\* bad_volume have a negative volume, the next bad_both have both, the others neither
QuoteBatch(n, bad_price, bad_volume, bad_both, bad) ==
    [k \in 1..n |->
        IF k <= bad_price THEN DictOf([price |-> bad, volume |-> IntVal(5)])
        ELSE IF k <= bad_price + bad_volume
        THEN DictOf([price |-> FloatVal(10), volume |-> IntVal(-1)])
        ELSE IF k <= bad_price + bad_volume + bad_both
        THEN DictOf([price |-> bad, volume |-> IntVal(-1)])
        ELSE DictOf([price |-> FloatVal(10), volume |-> IntVal(5)])]

InitValidity ==
    /\ requests = <<>>
    /\ clock = 0
    /\ limCall = NoCall
    /\ upstream = [resps |-> [i \in 1..MaxResp |-> 200], retry_after |-> <<>>]
    /\ syncCall = Pending
    /\ asyncCall = Pending
    /\ th = NoThreads
    /\ lostStamp = FALSE
    /\ job = NoJob
    /\ ext = NoExtract
    /\ SchedulerConstructed
    /\ NothingTransformed
    /\ \E data_type \in ValidityTypes, n \in 0..MaxBatch, bad \in BadPrices :
          \E bad_price \in 0..n, bad_volume \in 0..n, bad_both \in 0..n :
              /\ bad_price + bad_volume + bad_both <= n
              /\ validityCall = [NoValidity EXCEPT !.data_type = data_type, !.n = n, !.bad = bad,
                                    !.bad_price = bad_price, !.bad_volume = bad_volume,
                                    !.bad_both = bad_both]
    /\ cronCall = NoCron
    /\ tickLoop = NoTicks
    /\ mon = NoMetrics
    /\ disk = NoFiles
    /\ sent = <<>>

\* validate_data_quality runs the validity check on the batch
CheckQuotes ==
    /\ validityCall.pc = "input"
    /\ LET r == CheckValidity(QuoteBatch(validityCall.n, validityCall.bad_price,
                                         validityCall.bad_volume, validityCall.bad_both,
                                         validityCall.bad),
                              validityCall.data_type)
       IN  validityCall' = [validityCall EXCEPT !.pc = "done", !.status = r.status,
                                                !.invalid = r.invalid]
    /\ UNCHANGED <<cronCall, tickLoop, mon, disk, sent>>
    /\ UNCHANGED <<limiterVars, clientVars, threadVars, extractVars, schedVars, pureVars>>

NextValidity == CheckQuotes

SpecValidity == InitValidity /\ [][NextValidity]_vars

\* C21: the validity status of a stock_quotes batch is Error when more than
\* 10% of its records violate a business rule (price not > 0, volume < 0),
\* Warning when more than 5% do, and Valid otherwise, the percentage being
\* the number of violating records over the number of records.  Checked
\* under SpecValidity.
C21_ValidityThresholds ==
    (validityCall.pc = "done" /\ validityCall.data_type = "stock_quotes") =>
        LET violating == validityCall.bad_price + validityCall.bad_volume + validityCall.bad_both
        IN  validityCall.status =
               IF violating * 100 > 10 * validityCall.n THEN "error"
               ELSE IF violating * 100 > 5 * validityCall.n THEN "warning"
               ELSE "valid"

----------------------------------------------------------------------------
(* The save step of the extractors (src/data_pipeline/extractors.py): each *)
(* run that reaches it calls save_raw_data and then save_processed_data.   *)
(* A file is named by its directory, the name it is given and the          *)
(* timestamp, datetime.now() formatted to the second; its content is the   *)
(* run that wrote it.                                                      *)

\* Path(dir) / f"{filename}_{timestamp}.json"
FilePath(dir, filename, now) == [dir |-> dir, filename |-> filename, timestamp |-> now]

InitFiles ==
    /\ requests = <<>>
    /\ clock = 0
    /\ limCall = NoCall
    /\ upstream = [resps |-> [i \in 1..MaxResp |-> 200], retry_after |-> <<>>]
    /\ syncCall = Pending
    /\ asyncCall = Pending
    /\ th = NoThreads
    /\ lostStamp = FALSE
    /\ job = NoJob
    /\ ext = NoExtract
    /\ SchedulerConstructed
    /\ NothingTransformed
    /\ validityCall = NoValidity
    /\ cronCall = NoCron
    /\ tickLoop = NoTicks
    /\ mon = NoMetrics
    /\ disk = NoFiles
    /\ sent = <<>>

\* a second passes
SecondPasses ==
    /\ disk.now < MaxSeconds
    /\ disk' = [disk EXCEPT !.now = @ + 1]
    /\ UNCHANGED <<validityCall, cronCall, tickLoop, mon, sent>>
    /\ UNCHANGED <<limiterVars, clientVars, threadVars, extractVars, schedVars, pureVars>>

\* the extract() of some source leaves its loop: self.save_raw_data(raw_data, job, name)
SaveRawData ==
    /\ disk.pc = "idle"
    /\ disk.run < MaxSaves
    /\ \E src \in DataSources :
          disk' = [disk EXCEPT !.pc = "raw_saved", !.run = @ + 1, !.data_source = src,
                      !.files = Put(@, FilePath("raw_data_dir", src, disk.now), disk.run + 1)]
    /\ UNCHANGED <<validityCall, cronCall, tickLoop, mon, sent>>
    /\ UNCHANGED <<limiterVars, clientVars, threadVars, extractVars, schedVars, pureVars>>

\* self.save_processed_data(records, job, name)
SaveProcessedData ==
    /\ disk.pc = "raw_saved"
    /\ disk' = [disk EXCEPT !.pc = "idle", !.data_source = NONE,
                   !.files = Put(@, FilePath("processed_data_dir", disk.data_source, disk.now),
                                 disk.run)]
    /\ UNCHANGED <<validityCall, cronCall, tickLoop, mon, sent>>
    /\ UNCHANGED <<limiterVars, clientVars, threadVars, extractVars, schedVars, pureVars>>

NextFiles == SecondPasses \/ SaveRawData \/ SaveProcessedData

SpecFiles == InitFiles /\ [][NextFiles]_vars

\* C25: no persisted file is ever overwritten: a file that exists keeps the
\* content it has, whatever runs save afterwards and whenever they do.
\* Checked under SpecFiles.
C25_NoFileOverwritten ==
    [][\A f \in DOMAIN disk.files :
          f \in DOMAIN disk'.files /\ disk'.files[f] = disk.files[f]]_vars

----------------------------------------------------------------------------
(* The tick loop of PipelineScheduler._run_scheduler taken on its own: one *)
(* thread, running stays True.  _execute_schedule calls extract() inside   *)
(* the loop, so the time the extractions of a tick take passes before the  *)
(* loop sleeps.  Time is in seconds from BaseTime, a minute is named by    *)
(* the number of whole minutes since then.                                 *)

\* the seconds the extractions of one tick may take altogether
ExtractSeconds == {0, 45, 300}

\* the schedules _check_scheduled_jobs executes when it reads datetime.now() in minute m
DueAt(m) ==
    {j \in DOMAIN Schedules :
        Schedules[j].enabled /\ ShouldRunSchedule(Schedules[j], DateTimeAt(m * 60))}

InitTicks ==
    /\ requests = <<>>
    /\ clock = 0
    /\ limCall = NoCall
    /\ upstream = [resps |-> [i \in 1..MaxResp |-> 200], retry_after |-> <<>>]
    /\ syncCall = Pending
    /\ asyncCall = Pending
    /\ th = NoThreads
    /\ lostStamp = FALSE
    /\ job = NoJob
    /\ ext = NoExtract
    /\ SchedulerConstructed
    /\ NothingTransformed
    /\ validityCall = NoValidity
    /\ cronCall = NoCron
    /\ tickLoop = NoTicks
    /\ mon = NoMetrics
    /\ disk = NoFiles
    /\ sent = <<>>

\* start(): the thread is spawned and enters while self.running
StartLoop ==
    /\ tickLoop.pc = "unstarted"
    /\ tickLoop' = [tickLoop EXCEPT !.pc = "check"]
    /\ UNCHANGED <<validityCall, cronCall, mon, disk, sent>>
    /\ UNCHANGED <<limiterVars, clientVars, threadVars, extractVars, schedVars, pureVars>>

\* _check_scheduled_jobs: current_time = datetime.now(); every enabled schedule
\* that _should_run_schedule accepts is executed, one after the other
CheckScheduledJobs ==
    /\ tickLoop.pc = "check"
    /\ LET m == tickLoop.now \div 60
       IN  \E d \in ExtractSeconds :
              /\ (DueAt(m) = {}) => d = 0
              /\ tickLoop' = [tickLoop EXCEPT !.pc = "sleep", !.now = @ + d,
                                 !.evaluated = @ \cup {m},
                                 !.executed = @ \cup {<<j, m>> : j \in DueAt(m)}]
    /\ UNCHANGED <<validityCall, cronCall, mon, disk, sent>>
    /\ UNCHANGED <<limiterVars, clientVars, threadVars, extractVars, schedVars, pureVars>>

\* time.sleep(60)
SleepMinute ==
    /\ tickLoop.pc = "sleep"
    /\ tickLoop.now + tick_sleep <= MaxTickWall
    /\ tickLoop' = [tickLoop EXCEPT !.pc = "check", !.now = @ + tick_sleep]
    /\ UNCHANGED <<validityCall, cronCall, mon, disk, sent>>
    /\ UNCHANGED <<limiterVars, clientVars, threadVars, extractVars, schedVars, pureVars>>

NextTicks == StartLoop \/ CheckScheduledJobs \/ SleepMinute

SpecTicks == InitTicks /\ [][NextTicks]_vars

\* C27: while the scheduler is running, every enabled schedule has been
\* executed in every past wall-clock minute that matches its trigger,
\* however long the extractions of earlier ticks took.  Checked under
\* SpecTicks.
C27_EveryMatchingMinuteExecuted ==
    tickLoop.pc # "unstarted" =>
        \A m \in 0..(tickLoop.now \div 60 - 1) :
            \A j \in DueAt(m) : <<j, m>> \in tickLoop.executed

----------------------------------------------------------------------------
(* PipelineScheduler._should_run_schedule applied to one default schedule  *)
(* and one time.  weekday is datetime.weekday(): Monday is 0, Sunday is 6. *)

InitCron ==
    /\ requests = <<>>
    /\ clock = 0
    /\ limCall = NoCall
    /\ upstream = [resps |-> [i \in 1..MaxResp |-> 200], retry_after |-> <<>>]
    /\ syncCall = Pending
    /\ asyncCall = Pending
    /\ th = NoThreads
    /\ lostStamp = FALSE
    /\ job = NoJob
    /\ ext = NoExtract
    /\ SchedulerConstructed
    /\ NothingTransformed
    /\ validityCall = NoValidity
    /\ \E i \in DOMAIN Schedules, weekday \in 0..6, hour \in 0..23, minute \in 0..59 :
          cronCall = [NoCron EXCEPT !.i = i,
                         !.current_time = [weekday |-> weekday, hour |-> hour, minute |-> minute]]
    /\ tickLoop = NoTicks
    /\ mon = NoMetrics
    /\ disk = NoFiles
    /\ sent = <<>>

\* _check_scheduled_jobs asks whether the schedule should run at current_time
ShouldRun ==
    /\ cronCall.pc = "input"
    /\ cronCall' = [cronCall EXCEPT !.pc = "done",
                       !.result = ShouldRunSchedule(Schedules[cronCall.i], cronCall.current_time)]
    /\ UNCHANGED <<validityCall, tickLoop, mon, disk, sent>>
    /\ UNCHANGED <<limiterVars, clientVars, threadVars, extractVars, schedVars, pureVars>>

NextCron == ShouldRun

SpecCron == InitCron /\ [][NextCron]_vars

\* the times a cron expression of the default schedules denotes
CronDenotes(cron_expression, t) ==
    IF cron_expression = "*/5 9-16 * * 1-5"
    THEN t.minute % 5 = 0 /\ t.hour \in 9..16 /\ t.weekday \in 0..4
    ELSE IF cron_expression = "*/15 9-16 * * 1-5"
    THEN t.minute % 15 = 0 /\ t.hour \in 9..16 /\ t.weekday \in 0..4
    ELSE IF cron_expression = "0 6 * * *" THEN t.minute = 0 /\ t.hour = 6
    ELSE IF cron_expression = "0 19 * * *" THEN t.minute = 0 /\ t.hour = 19
    ELSE IF cron_expression = "*/30 * * * *" THEN t.minute \in {0, 30}
    ELSE FALSE

\* C30: _should_run_schedule returns true at exactly the times the
\* schedule's cron expression denotes: minute divisible by 5 (resp. 15),
\* hour 9 through 16 inclusive, Monday to Friday; minute 0 of hour 6 and of
\* hour 19; minutes 0 and 30 of every hour.  Checked under SpecCron.
C30_CronTimesExact ==
    cronCall.pc = "done" =>
        (cronCall.result <=> CronDenotes(Schedules[cronCall.i].cron_expression,
                                         cronCall.current_time))

====
